---- MODULE Spec2Model ----
(***************************************************************************)
(* Model of the town classification of src/server.js: buildGroupedEvents   *)
(* groups the ticketing API's events by town and keeps the result in       *)
(* __eventsCache; buildTownIndex turns grouped events into the ordered     *)
(* list of town records the pages and the town-index API serve.  The       *)
(* helpers they rest on are modelled each with a specification of its own: *)
(* slugifyTown, axiosGetWithRetry, pLimit and the requests                 *)
(* buildGroupedEvents sends through them.  So are the TTL cache of         *)
(* buildGroupedEvents with overlapping calls, GET /sitemap.xml with its    *)
(* cache, and the town pages the sitemap lists.                            *)
(*                                                                         *)
(* Time.  A Date is an instant, counted in ticks; a local calendar day is  *)
(* TicksPerDay consecutive ticks, tick 0 of a day being local midnight     *)
(* (what startOfTodayLocal returns) and the other ticks times of day       *)
(* during it.  An ISO string is modelled by the pair <<day, tick of day>>  *)
(* which toISOString writes and new Date(...) parses back.                 *)
(***************************************************************************)
EXTENDS Integers, Sequences, FiniteSets, TLC

\* ---- bounds of the model ----
MaxDay == 2               \* performances fall on days 0 .. MaxDay
MaxEvents == 3            \* events the ticketing API lists
MaxComingSoonDays == 2    \* comingSoonDays ranges over 0 .. MaxComingSoonDays
FirstClockDay == 0        \* the server's clock starts on this day ...
LastClockDay == 1         \* ... and runs up to this one
MaxNameLen == 4           \* characters of a town name given to slugifyTown
MaxRetries == 3           \* TS_MAX_RETRIES is configured within 0 .. MaxRetries
MaxTasks == 5             \* functions given to a limiter
MaxConcurrency == 2       \* a limiter's concurrency ranges over 1 .. MaxConcurrency
MaxCalls == 2             \* calls of buildGroupedEvents fetching the list at once
MaxListed == 1            \* events a fetched list holds, as far as the fan-out goes
MaxClock == 3             \* Date.now() runs over 0 .. MaxClock
CacheTtl == 2             \* TS_CACHE_TTL_MS, in ticks of that clock

\* TS_MAX_RETRIES and TS_CONCURRENCY when the environment does not set them
DefaultMaxRetries == 2
DefaultConcurrency == 6

\* the towns the venues are in, and the times of day performances start at
TownNames == <<"Oundle", "Bedford", "Corby">>
TimesOfDay == <<"00:00", "14:00">>
TicksPerDay == Len(TimesOfDay)

Instants == 0 .. ((MaxDay + 1) * TicksPerDay - 1)

\* ---- Date <-> ISO string ----
\* Date.prototype.toISOString
ToISOString(dt) == <<dt \div TicksPerDay, dt % TicksPerDay>>
\* a string no date can be read from, and the time value NaN of the
\* Invalid Date that new Date(...) makes of it
BadISO == <<>>
NaN == -2
\* new Date(iso)
ParseDate(iso) == IF iso = BadISO THEN NaN ELSE iso[1] * TicksPerDay + iso[2]
\* a < b and a > b on Dates: every comparison with an Invalid Date is false
DateLT(a, b) == a # NaN /\ b # NaN /\ a < b
DateGT(a, b) == DateLT(b, a)

\* startOfTodayLocal(): local midnight of the clock's day
startOfTodayLocal(day) == day * TicksPerDay

\* isSameLocalDay(a, b): same year, month and day of month
isSameLocalDay(a, b) == (a \div TicksPerDay) = (b \div TicksPerDay)

\* ---- small helpers on sequences ----
Range(s) == {s[i] : i \in 1 .. Len(s)}

RECURSIVE FlattenSeq(_)
FlattenSeq(ss) == IF ss = <<>> THEN <<>> ELSE Head(ss) \o FlattenSeq(Tail(ss))

\* ---- the ticketing API ----
\* One event as the API lists it: the town of its first venue
\* (venues[0].attributes.address.line_3) and the start of each of its dates.
\* Town names are labels: lists that differ only by renaming the towns are
\* represented by the one that uses the names in the order of TownNames.
CanonicalTowns(ts) ==
    \A i \in 1 .. Len(ts) :
        \E k \in 1 .. Len(TownNames) :
            /\ ts[i] = TownNames[k]
            /\ \A j \in 1 .. (k - 1) : \E h \in 1 .. (i - 1) : ts[h] = TownNames[j]

TownLists(n) == {ts \in [1 .. n -> Range(TownNames)] : CanonicalTowns(ts)}

\* date.attributes.start as the API writes the instant d, NaN standing for a
\* start that is no date
UpstreamDate(d) == IF d = NaN THEN BadISO ELSE ToISOString(d)

\* the list of n events in the towns ts, event i having the one date ds[i]
UpstreamList(n, ts, ds) ==
    [i \in 1 .. n |-> [town |-> ts[i], dates |-> <<UpstreamDate(ds[i])>>]]

VARIABLES
    upstream,     \* the events the ticketing API returns
    clockDay,     \* the local calendar day of the server's clock
    eventsCache,  \* __eventsCache entry "__all__": <<>> or <<groupedEvents>>
    response,     \* <<>> or <<the call a route made and what it returned>>
    slugIn,       \* the town name slugifyTown is called with
    slugOut,      \* <<>> or <<the string slugifyTown returned>>
    TS_MAX_RETRIES,  \* the retries the configuration allows
    retryPc,      \* where a call of axiosGetWithRetry is: "idle", "get" (a
                  \* request is in flight), "wait" (the backoff timer is
                  \* running) or "done"
    attempt,      \* the attempt argument of the innermost call
    requests,     \* what the requests made so far ended with, in order
    waits,        \* the delays given to setTimeout so far, in order
    settled,      \* <<>> or <<what the outermost call returned or threw>>
    limiter,      \* the closure pLimit made: concurrency, activeCount, queue,
                  \* and what became of the functions given to it
    listFetches,  \* the calls of fetchAllEvents that have a request in flight
    clock,        \* Date.now()
    cacheEntries, \* __eventsCache with its keys and timestamps: for every
                  \* key <<>> or <<[ts, data]>>
    calls,        \* for every route, the call of buildGroupedEvents its
                  \* request has made, and what the route answered
    sitemapCache, \* the variable sitemapCache: xml, ts, etag
    sitemapReqs   \* the GET /sitemap.xml requests

serverVars == <<upstream, clockDay, eventsCache, response>>
slugVars == <<slugIn, slugOut>>
retryVars == <<TS_MAX_RETRIES, retryPc, attempt, requests, waits, settled>>
limitVars == <<limiter, listFetches>>
cacheVars == <<clock, cacheEntries, calls>>
sitemapVars == <<sitemapCache, sitemapReqs>>
webVars == <<cacheVars, sitemapVars>>
helperVars == <<slugVars, retryVars, limitVars, webVars>>
vars == <<serverVars, helperVars>>

\* no call of slugifyTown is under way
SlugIdle == slugIn = <<>> /\ slugOut = <<>>
\* no call of axiosGetWithRetry is under way
RetryIdle ==
    /\ TS_MAX_RETRIES = DefaultMaxRetries
    /\ retryPc = "idle"
    /\ attempt = 0
    /\ requests = <<>>
    /\ waits = <<>>
    /\ settled = <<>>
\* pLimit(concurrency) as it returns: nothing was given to the limiter yet.
\* A function given to it is known by its number in the order of the calls;
\* promises[t] is the promise returned for function t.
NewLimiter(concurrency) ==
    [concurrency |-> concurrency,
     activeCount |-> 0,
     queue       |-> <<>>,
     microtasks  |-> <<>>,   \* Promise.resolve().then(fn) not yet run, in order
     started     |-> <<>>,   \* the functions called, in the order of the calls
     running     |-> {},     \* called, and the promise of fn not yet handled
     promises    |-> <<>>]
\* __limit with nothing given to it and no list being fetched
LimitIdle ==
    /\ limiter = NewLimiter(DefaultConcurrency)
    /\ listFetches = 0

\* the keys __eventsCache gets: "__all__" and the lower-case references
CacheKeys == {"__all__", "spring"}
\* the routes whose requests call buildGroupedEvents: one that passes the
\* reference of the query, one that passes null
Routes == {"/api/events", "/api/town-index"}
\* a call of buildGroupedEvents not made yet
NoCall ==
    [pc        |-> "idle",   \* "fetching" the list, "details" (venue and date
                             \* requests under way), "returned", "thrown",
                             \* "answered" (the route has responded)
     reference |-> "",       \* req.query.reference, "" when there is none
     cacheKey  |-> "",
     cached    |-> <<>>,     \* what __eventsCache.get(cacheKey) gave: <<>> or <<entry>>
     fetched   |-> FALSE,    \* the call has sent a request to the API
     events    |-> <<>>,     \* the list fetched, after the reference filter
     venueOk   |-> <<>>,     \* per event: the venue request fulfilled
     datesOk   |-> <<>>,     \* per event: the dates request fulfilled
     result    |-> <<>>,     \* <<>> or <<the data returned>>
     code      |-> 0]        \* the status the route answered with
\* the server has started: empty cache, no call made
CacheIdle ==
    /\ clock = 0
    /\ cacheEntries = [k \in CacheKeys |-> <<>>]
    /\ calls = [route \in Routes |-> NoCall]
\* let sitemapCache = { xml: null, ts: 0, etag: null }
NoSitemap == [xml |-> <<>>, ts |-> 0, etag |-> <<>>]
\* the clients whose GET /sitemap.xml requests may overlap
Crawlers == {"crawler1", "crawler2"}
\* a GET /sitemap.xml request not made yet
NoRequest ==
    [pc          |-> "idle",  \* "building" (awaiting buildGroupedEvents), "answered"
     ifNoneMatch |-> <<>>,    \* req.headers["if-none-match"], <<>> when absent
     call        |-> NoCall,  \* its call of buildGroupedEvents(null)
     code        |-> 0,       \* the status of the response
     body        |-> <<>>,    \* the XML sent, <<>> when none
     etag        |-> <<>>]    \* the ETag header sent, <<>> when none
SitemapIdle ==
    /\ sitemapCache = NoSitemap
    /\ sitemapReqs = [s \in Crawlers |-> NoRequest]
WebIdle == CacheIdle /\ SitemapIdle
HelpersIdle == SlugIdle /\ RetryIdle /\ LimitIdle /\ WebIdle

\* null, for a Date variable that has not been assigned
Null == -1

\* ---- buildGroupedEvents: grouping of the fetched events (lines 757-823) ----
\* dates.forEach: a date before the start of today is left out
FutureDates(dates, today) ==
    LET Keep(iso) == ~DateLT(ParseDate(iso), today)
        kept == SelectSeq(dates, Keep)
    IN  [i \in 1 .. Len(kept) |-> [startISO |-> kept[i]]]

\* groupedEvents[town] = groupedEvents[town] || []; groupedEvents[town].push(...)
\* An object keeps its keys in the order they were first assigned.
PushEvent(grouped, ev) ==
    IF \E i \in 1 .. Len(grouped) : grouped[i].town = ev.town
    THEN [i \in 1 .. Len(grouped) |->
            IF grouped[i].town = ev.town
            THEN [grouped[i] EXCEPT !.events = Append(@, ev)]
            ELSE grouped[i]]
    ELSE Append(grouped, [town |-> ev.town, events |-> <<ev>>])

RECURSIVE GroupEvents(_, _, _)
GroupEvents(events, today, grouped) ==
    IF events = <<>> THEN grouped
    ELSE LET event == Head(events)
             eventDetails == [town |-> event.town,
                              dates |-> FutureDates(event.dates, today)]
         IN  GroupEvents(Tail(events), today,
                 IF Len(eventDetails.dates) = 0 THEN grouped
                 ELSE PushEvent(grouped, eventDetails))

\* ---- buildTownIndex (lines 829-895) ----
\* A town's value that is an array is the field events of its entry; a value
\* that is no array is named by the field value ("null", "number" for a
\* number other than 0, "object" for a plain object).
\* const events = groupedEvents[town] || []
EventsOf(g) == IF "events" \in DOMAIN g THEN g.events ELSE <<>>
\* for (const ev of events): a number and a plain object are not iterable
NotIterable(g) == "events" \notin DOMAIN g /\ g.value \in {"number", "object"}
\* ev.dates || []
DatesOf(ev) == IF "dates" \in DOMAIN ev THEN ev.dates ELSE <<>>

\* for (const ev of events) for (const d of ev.dates || []) ...
AllDates(events) == FlattenSeq([i \in 1 .. Len(events) |-> DatesOf(events[i])])

RECURSIVE ScanDates(_, _, _)
ScanDates(ds, minStart, maxEnd) ==
    IF ds = <<>> THEN <<minStart, maxEnd>>
    ELSE LET dt == ParseDate(Head(ds).startISO)
         IN  ScanDates(Tail(ds),
                 IF minStart = Null \/ DateLT(dt, minStart) THEN dt ELSE minStart,
                 IF maxEnd = Null \/ DateGT(dt, maxEnd) THEN dt ELSE maxEnd)

\* TownEntry handing on only the first event of the town
TownEntryFirstEventOnly(g) ==
    LET r == ScanDates(AllDates(EventsOf(g)), Null, Null)
    IN  IF r[1] = Null \/ r[2] = Null THEN <<>>
        ELSE <<[town         |-> g.town,
                startDateISO |-> ToISOString(r[1]),
                endDateISO   |-> ToISOString(r[2]),
                status       |-> "LATER",
                events       |-> SubSeq(EventsOf(g), 1, 1)]>>

\* the record .map builds for one town; <<>> stands for the null it returns
\* (townSlug, a function of town alone, is left out)
TownEntry(g) ==
    LET r == ScanDates(AllDates(EventsOf(g)), Null, Null)
    IN  IF r[1] = Null \/ r[2] = Null THEN <<>>
        ELSE <<[town         |-> g.town,
                startDateISO |-> ToISOString(r[1]),
                endDateISO   |-> ToISOString(r[2]),
                status       |-> "LATER",
                events       |-> EventsOf(g)]>>

\* What the .map callback throws for one town, "none" if it returns:
\* TypeError from for .. of over a value that is not iterable, RangeError
\* from toISOString() of an Invalid Date.
TownEntryThrows(g) ==
    IF NotIterable(g) THEN "TypeError"
    ELSE LET r == ScanDates(AllDates(EventsOf(g)), Null, Null)
         IN  IF r[1] = NaN \/ r[2] = NaN THEN "RangeError" ELSE "none"

\* what buildTownIndex throws: the error of the first town that throws
buildTownIndexThrows(groupedEvents) ==
    LET bad == {i \in 1 .. Len(groupedEvents) :
                   TownEntryThrows(groupedEvents[i]) # "none"}
    IN  IF bad = {} THEN "none"
        ELSE TownEntryThrows(groupedEvents[CHOOSE i \in bad : \A j \in bad : i <= j])

\* .map(...).filter(Boolean)
MapTowns(groupedEvents) ==
    FlattenSeq([i \in 1 .. Len(groupedEvents) |-> TownEntry(groupedEvents[i])])

\* InsertByStart as a sort that is not stable would do it: x goes behind the
\* towns that start when it does.
RECURSIVE InsertByStartBehindTies(_, _)
InsertByStartBehindTies(x, s) ==
    IF s = <<>> THEN <<x>>
    ELSE IF ParseDate(Head(s).startDateISO) <= ParseDate(x.startDateISO)
         THEN <<Head(s)>> \o InsertByStartBehindTies(x, Tail(s))
         ELSE <<x>> \o s

\* .sort((a, b) => new Date(a.startDateISO) - new Date(b.startDateISO)):
\* Array.prototype.sort is stable, equal keys keep their order.
RECURSIVE InsertByStart(_, _)
InsertByStart(x, s) ==
    IF s = <<>> THEN <<x>>
    ELSE IF ParseDate(Head(s).startDateISO) < ParseDate(x.startDateISO)
         THEN <<Head(s)>> \o InsertByStart(x, Tail(s))
         ELSE <<x>> \o s

RECURSIVE SortByStart(_)
SortByStart(s) ==
    IF s = <<>> THEN <<>> ELSE InsertByStart(Head(s), SortByStart(Tail(s)))

\* BaseStatus calling a town that starts after the cutoff "PAST"
BaseStatusPastBeyondCutoff(t, today, soonCutoff) ==
    LET start == ParseDate(t.startDateISO)
        end   == ParseDate(t.endDateISO)
    IN  IF start <= today /\ end >= today
        THEN (IF isSameLocalDay(end, today) THEN "FINAL_DAY" ELSE "IN_TOWN_NOW")
        ELSE IF start > today /\ start <= soonCutoff THEN "COMING_SOON"
        ELSE "PAST"

\* the first pass over the towns (lines 867-880)
BaseStatus(t, today, soonCutoff) ==
    LET start == ParseDate(t.startDateISO)
        end   == ParseDate(t.endDateISO)
    IN  IF start <= today /\ end >= today
        THEN (IF isSameLocalDay(end, today) THEN "FINAL_DAY" ELSE "IN_TOWN_NOW")
        ELSE IF start > today /\ start <= soonCutoff THEN "COMING_SOON"
        ELSE IF end < today THEN "PAST"
        ELSE "LATER"

\* FirstStartingAfter with >= for >
FirstStartingAtOrAfter(towns, limit) ==
    LET hits == {i \in 1 .. Len(towns) : ParseDate(towns[i].startDateISO) >= limit}
    IN  IF hits = {} THEN 0 ELSE CHOOSE i \in hits : \A j \in hits : i <= j

\* towns.find(t => new Date(t.startDateISO) > limit): its index, 0 if none
FirstStartingAfter(towns, limit) ==
    LET hits == {i \in 1 .. Len(towns) : ParseDate(towns[i].startDateISO) > limit}
    IN  IF hits = {} THEN 0 ELSE CHOOSE i \in hits : \A j \in hits : i <= j

SeqMax(S) == CHOOSE m \in S : \A x \in S : x <= m

\* the second pass (lines 882-892): the index of the town promoted, 0 if none
NextStopIndex(towns, today) ==
    LET inTownNow == {i \in 1 .. Len(towns) :
                         towns[i].status \in {"IN_TOWN_NOW", "FINAL_DAY"}}
    IN  IF inTownNow # {}
        THEN FirstStartingAfter(towns,
                 SeqMax({ParseDate(towns[i].endDateISO) : i \in inTownNow}))
        ELSE FirstStartingAfter(towns, today)

\* DropPast without the filter
KeepPast(towns) == towns

\* towns.filter((t) => t.status !== "PAST") (line 894)
DropPast(towns) ==
    LET NotPast(t) == t.status # "PAST" IN SelectSeq(towns, NotPast)

buildTownIndex(groupedEvents, comingSoonDays, day) ==
    LET today      == startOfTodayLocal(day)
        soonCutoff == startOfTodayLocal(day + comingSoonDays)
        sorted     == SortByStart(MapTowns(groupedEvents))
        towns      == [i \in 1 .. Len(sorted) |->
                          [sorted[i] EXCEPT
                              !.status = BaseStatus(sorted[i], today, soonCutoff)]]
        next       == NextStopIndex(towns, today)
        promoted   == [i \in 1 .. Len(towns) |->
                          IF i = next THEN [towns[i] EXCEPT !.status = "NEXT_STOP"]
                          ELSE towns[i]]
    IN  DropPast(promoted)

\* ---- the server ----
Init ==
    /\ \E n \in 0 .. MaxEvents :
         \E ts \in TownLists(n), ds \in [1 .. n -> Instants] :
             upstream = UpstreamList(n, ts, ds)
    /\ clockDay = FirstClockDay
    /\ eventsCache = <<>>
    /\ response = <<>>
    /\ HelpersIdle

\* what a route that builds the town index answers with: the list, or 500
\* from its catch block when buildTownIndex threw
Answer(groupedEvents, comingSoonDays) ==
    IF buildTownIndexThrows(groupedEvents) # "none"
    THEN <<[code           |-> 500,
            threw          |-> buildTownIndexThrows(groupedEvents),
            groupedEvents  |-> groupedEvents,
            comingSoonDays |-> comingSoonDays,
            day            |-> clockDay]>>
    ELSE <<[code           |-> 200,
            groupedEvents  |-> groupedEvents,
            comingSoonDays |-> comingSoonDays,
            day            |-> clockDay,
            townIndex      |-> buildTownIndex(groupedEvents, comingSoonDays, clockDay)]>>

\* A route calls buildGroupedEvents(null), the fetch succeeds: the events are
\* grouped as of today, the cache entry is replaced, the index is built.
RouteFetched(comingSoonDays) ==
    /\ response = <<>>
    /\ LET groupedEvents == GroupEvents(upstream, startOfTodayLocal(clockDay), <<>>)
       IN  /\ eventsCache' = <<groupedEvents>>
           /\ response' = Answer(groupedEvents, comingSoonDays)
    /\ UNCHANGED <<upstream, clockDay>>
    /\ UNCHANGED helperVars

\* A route calls buildGroupedEvents(null) and gets cached.data: the entry is
\* younger than the TTL, or the fetch failed and the entry is served stale.
RouteCached(comingSoonDays) ==
    /\ response = <<>>
    /\ eventsCache # <<>>
    /\ response' = Answer(eventsCache[1], comingSoonDays)
    /\ UNCHANGED <<upstream, clockDay, eventsCache>>
    /\ UNCHANGED helperVars

\* The fetch failed and there is no entry: buildGroupedEvents throws, the
\* route answers 500.
RouteFailed ==
    /\ response = <<>>
    /\ eventsCache = <<>>
    /\ response' = <<[code |-> 500]>>
    /\ UNCHANGED <<upstream, clockDay, eventsCache>>
    /\ UNCHANGED helperVars

\* The response has been sent.
Respond ==
    /\ response # <<>>
    /\ response' = <<>>
    /\ UNCHANGED <<upstream, clockDay, eventsCache>>
    /\ UNCHANGED helperVars

\* The clock passes local midnight.
Midnight ==
    /\ response = <<>>
    /\ clockDay < LastClockDay
    /\ clockDay' = clockDay + 1
    /\ UNCHANGED <<upstream, eventsCache, response>>
    /\ UNCHANGED helperVars

Next ==
    \/ \E n \in 0 .. MaxComingSoonDays : RouteFetched(n)
    \/ \E n \in 0 .. MaxComingSoonDays : RouteCached(n)
    \/ RouteFailed
    \/ Respond
    \/ Midnight

Spec == Init /\ [][Next]_vars

\* ---- the server when the API may send a start that is no date ----
InitBadDates ==
    /\ \E n \in 0 .. MaxEvents :
         \E ts \in TownLists(n), ds \in [1 .. n -> Instants \cup {NaN}] :
             upstream = UpstreamList(n, ts, ds)
    /\ clockDay = FirstClockDay
    /\ eventsCache = <<>>
    /\ response = <<>>
    /\ HelpersIdle

SpecBadDates == InitBadDates /\ [][Next]_vars

\* ---- buildTownIndex called with any mapping, well formed or not ----
\* What a town's value is: something that is no array, an empty array, or an
\* array of one event that has no dates field, no date, or one date.
ValueChoices ==
    ({"null", "number", "object", "empty", "nodates", "emptydates"} \X {0})
        \cup ({"date"} \X Instants)

CallerEntry(town, c) ==
    CASE c[1] \in {"null", "number", "object"} -> [town |-> town, value |-> c[1]]
      [] c[1] = "empty" -> [town |-> town, events |-> <<>>]
      [] c[1] = "nodates" -> [town |-> town, events |-> <<[town |-> town]>>]
      [] c[1] = "emptydates" ->
            [town |-> town, events |-> <<[town |-> town, dates |-> <<>>]>>]
      [] OTHER ->
            [town |-> town,
             events |-> <<[town |-> town,
                           dates |-> <<[startISO |-> ToISOString(c[2])]>>]>>]

InitCaller ==
    /\ upstream = <<>>
    /\ clockDay \in FirstClockDay .. LastClockDay
    /\ eventsCache = <<>>
    /\ response = <<>>
    /\ HelpersIdle

\* a caller passes a mapping of its own making
DirectCall(comingSoonDays) ==
    /\ response = <<>>
    /\ \E n \in 0 .. Len(TownNames) :
         \E cs \in [1 .. n -> ValueChoices] :
             response' = Answer([i \in 1 .. n |-> CallerEntry(TownNames[i], cs[i])],
                                comingSoonDays)
    /\ UNCHANGED <<upstream, clockDay, eventsCache>>
    /\ UNCHANGED helperVars

NextCaller ==
    \/ \E n \in 0 .. MaxComingSoonDays : DirectCall(n)
    \/ Respond

SpecCaller == InitCaller /\ [][NextCaller]_vars

(***************************************************************************)
(* slugifyTown (lines 93-100).  A string is the sequence of its            *)
(* characters.                                                             *)
(***************************************************************************)
UpperCase == <<"A", "B", "C", "D", "E", "F", "G", "H", "I", "J", "K", "L", "M", "N", "O", "P", "Q", "R", "S", "T", "U", "V", "W", "X", "Y", "Z">>
LowerCase == <<"a", "b", "c", "d", "e", "f", "g", "h", "i", "j", "k", "l", "m", "n", "o", "p", "q", "r", "s", "t", "u", "v", "w", "x", "y", "z">>
Digits == {"0", "1", "2", "3", "4", "5", "6", "7", "8", "9"}
WhiteSpace == {" "}

\* [a-z0-9]
IsAlnum(c) == c \in Range(LowerCase) \cup Digits

\* .trim()
RECURSIVE trimStart(_)
trimStart(s) ==
    IF s # <<>> /\ Head(s) \in WhiteSpace THEN trimStart(Tail(s)) ELSE s
RECURSIVE trimEnd(_)
trimEnd(s) ==
    IF s # <<>> /\ s[Len(s)] \in WhiteSpace
    THEN trimEnd(SubSeq(s, 1, Len(s) - 1))
    ELSE s
trim(s) == trimEnd(trimStart(s))

\* .toLowerCase()
toLowerCase(s) ==
    [i \in DOMAIN s |->
        IF \E k \in DOMAIN UpperCase : UpperCase[k] = s[i]
        THEN LowerCase[CHOOSE k \in DOMAIN UpperCase : UpperCase[k] = s[i]]
        ELSE s[i]]

\* .replace(/&/g, "and")
RECURSIVE AmpToAnd(_)
AmpToAnd(s) ==
    IF s = <<>> THEN <<>>
    ELSE (IF Head(s) = "&" THEN <<"a", "n", "d">> ELSE <<Head(s)>>)
             \o AmpToAnd(Tail(s))

\* what is left of s after the run of non-alphanumerics it starts with
RECURSIVE SkipRun(_)
SkipRun(s) ==
    IF s # <<>> /\ ~IsAlnum(Head(s)) THEN SkipRun(Tail(s)) ELSE s

\* RunsToHyphen with the pattern /[^a-z0-9]/g, one hyphen per character
RECURSIVE EachToHyphen(_)
EachToHyphen(s) ==
    IF s = <<>> THEN <<>>
    ELSE IF IsAlnum(Head(s)) THEN <<Head(s)>> \o EachToHyphen(Tail(s))
    ELSE <<"-">> \o EachToHyphen(Tail(s))

\* .replace(/[^a-z0-9]+/g, "-")
RECURSIVE RunsToHyphen(_)
RunsToHyphen(s) ==
    IF s = <<>> THEN <<>>
    ELSE IF IsAlnum(Head(s)) THEN <<Head(s)>> \o RunsToHyphen(Tail(s))
    ELSE <<"-">> \o RunsToHyphen(SkipRun(Tail(s)))

\* .replace(/(^-|-$)+/g, ""): the hyphen the string starts with and the
\* hyphen it ends with are removed, one of each at most
StripEdgeHyphens(s) ==
    LET a == IF s # <<>> /\ Head(s) = "-" THEN Tail(s) ELSE s
    IN  IF a # <<>> /\ a[Len(a)] = "-" THEN SubSeq(a, 1, Len(a) - 1) ELSE a

slugifyTown(town) ==
    StripEdgeHyphens(RunsToHyphen(AmpToAnd(toLowerCase(trim(town)))))

\* the town names slugifyTown is called with: every string of at most
\* MaxNameLen characters of NameChars, and three names of real towns
NameChars == {"a", "B", "1", "&", " ", "-", "!"}
ExampleTowns ==
    << <<"S", "t", "r", "a", "t", "f", "o", "r", "d", "-", "u", "p", "o", "n", "-", "A", "v", "o", "n">>,
       <<"B", "u", "r", "y", " ", "S", "t", " ", "E", "d", "m", "u", "n", "d", "s">>,
       <<"A", " ", "&", " ", "B", " ", "T", "o", "w", "n">> >>

ServerIdle ==
    /\ upstream = <<>>
    /\ clockDay = FirstClockDay
    /\ eventsCache = <<>>
    /\ response = <<>>

\* the state slugifyTown has no part in
exceptSlug == <<serverVars, retryVars, limitVars, webVars>>

InitSlug ==
    /\ ServerIdle
    /\ RetryIdle
    /\ LimitIdle
    /\ WebIdle
    /\ \/ \E n \in 0 .. MaxNameLen : slugIn \in [1 .. n -> NameChars]
       \/ \E k \in DOMAIN ExampleTowns : slugIn = ExampleTowns[k]
    /\ slugOut = <<>>

\* slugifyTown(town) is called and returns
Slugify ==
    /\ slugOut = <<>>
    /\ slugOut' = <<slugifyTown(slugIn)>>
    /\ UNCHANGED <<exceptSlug, slugIn>>

\* the slug is given to slugifyTown again
Reslugify ==
    /\ slugOut # <<>>
    /\ slugIn' = slugOut[1]
    /\ slugOut' = <<slugifyTown(slugOut[1])>>
    /\ UNCHANGED exceptSlug

NextSlug == Slugify \/ Reslugify

SpecSlug == InitSlug /\ [][NextSlug]_vars

(***************************************************************************)
(* axiosGetWithRetry (lines 668-689).  What a request ends with is a       *)
(* record: its number among the requests of the call, the status of the    *)
(* response (Null when there was none: network, DNS, timeout) and the      *)
(* Retry-After header of the response (NoHeader when it has none).         *)
(***************************************************************************)
\* headers?.["retry-after"] of a response without that header, or of none
NoHeader == "undefined"

\* Retry-After headers, and what Number(...) makes of each
RetryAfterNumber ==
    ("0" :> 0) @@ ("2" :> 2) @@ ("-5" :> -5) @@ ("Fri, 01 Jan 2027 00:00:00 GMT" :> NaN)

ErrorStatuses == {404, 429, 503}
Errors(no) ==
    {[no |-> no, status |-> Null, retryAfter |-> NoHeader]}
        \cup [no : {no}, status : ErrorStatuses,
              retryAfter : {NoHeader} \cup DOMAIN RetryAfterNumber]
Success(no) == [no |-> no, status |-> 200, retryAfter |-> NoHeader]

\* !status is true of undefined
isRetryableAxiosError(err) ==
    \/ err.status = Null
    \/ err.status = 429
    \/ (err.status >= 500 /\ err.status <= 599)

\* OutOfRetries giving up one attempt late
OutOfRetriesLate(a) == a > TS_MAX_RETRIES

\* attempt >= TS_MAX_RETRIES
OutOfRetries(a) == a >= TS_MAX_RETRIES

\* Number(err?.response?.headers?.["retry-after"] || 0)
retryAfterOf(err) ==
    IF err.retryAfter = NoHeader THEN 0 ELSE RetryAfterNumber[err.retryAfter]

\* a number in a condition: 0 and NaN are false
Truthy(n) == n # 0 /\ n # NaN

BackoffTable == <<600, 1400, 2600>>

\* retryAfter ? retryAfter * 1000 : [600, 1400, 2600][attempt] || 2600
backoff(err, a) ==
    IF Truthy(retryAfterOf(err)) THEN retryAfterOf(err) * 1000
    ELSE IF a + 1 \in DOMAIN BackoffTable THEN BackoffTable[a + 1]
    ELSE 2600

\* the state axiosGetWithRetry has no part in
exceptRetry == <<serverVars, slugVars, limitVars, webVars>>

\* axiosGetWithRetry(url, config) has been called and its request is in flight
InitRetry ==
    /\ ServerIdle
    /\ SlugIdle
    /\ LimitIdle
    /\ WebIdle
    /\ TS_MAX_RETRIES \in 0 .. MaxRetries
    /\ retryPc = "get"
    /\ attempt = 0
    /\ requests = <<>>
    /\ waits = <<>>
    /\ settled = <<>>

\* axios.get resolves: the call returns the response
GetResolves ==
    /\ retryPc = "get"
    /\ LET res == Success(Len(requests) + 1)
       IN  /\ requests' = Append(requests, res)
           /\ settled' = <<[kind |-> "returned", value |-> res]>>
    /\ retryPc' = "done"
    /\ UNCHANGED <<exceptRetry, TS_MAX_RETRIES, attempt, waits>>

\* axios.get rejects with err: the catch block rethrows it or starts the
\* backoff timer
GetRejects(err) ==
    /\ retryPc = "get"
    /\ requests' = Append(requests, err)
    /\ IF OutOfRetries(attempt) \/ ~isRetryableAxiosError(err)
       THEN /\ settled' = <<[kind |-> "thrown", value |-> err]>>
            /\ retryPc' = "done"
            /\ UNCHANGED waits
       ELSE /\ waits' = Append(waits, backoff(err, attempt))
            /\ retryPc' = "wait"
            /\ UNCHANGED settled
    /\ UNCHANGED <<exceptRetry, TS_MAX_RETRIES, attempt>>

\* the timer fires: axiosGetWithRetry(url, config, attempt + 1) makes the
\* next request
TimerFires ==
    /\ retryPc = "wait"
    /\ attempt' = attempt + 1
    /\ retryPc' = "get"
    /\ UNCHANGED <<exceptRetry, TS_MAX_RETRIES, requests, waits, settled>>

NextRetry ==
    \/ GetResolves
    \/ \E err \in Errors(Len(requests) + 1) : GetRejects(err)
    \/ TimerFires

\* axios.get is given a timeout, so every request ends; every timer fires
SpecRetry == InitRetry /\ [][NextRetry]_vars /\ WF_vars(NextRetry)

(***************************************************************************)
(* pLimit (lines 639-664).  The operators take the limiter's state and     *)
(* give the state the code leaves it in.                                   *)
(***************************************************************************)
\* run(fn, resolve, reject): the slot is taken, fn is called in a microtask
run(L, t) ==
    [L EXCEPT !.activeCount = @ + 1, !.microtasks = Append(@, t)]

\* next()
next(L) ==
    LET M == [L EXCEPT !.activeCount = @ - 1]
    IN  IF Len(M.queue) > 0
        THEN run([M EXCEPT !.queue = Tail(@)], Head(M.queue))
        ELSE M

\* limit admitting a function while activeCount equals concurrency
limitOneTooMany(L) ==
    LET t == Len(L.promises) + 1
        M == [L EXCEPT !.promises = Append(@, [state |-> "pending", of |-> 0])]
    IN  IF M.activeCount <= M.concurrency
        THEN run(M, t)
        ELSE [M EXCEPT !.queue = Append(@, t)]

\* the function pLimit returns, called with the next function
limit(L) ==
    LET t == Len(L.promises) + 1
        M == [L EXCEPT !.promises = Append(@, [state |-> "pending", of |-> 0])]
    IN  IF M.activeCount < M.concurrency
        THEN run(M, t)
        ELSE [M EXCEPT !.queue = Append(@, t)]

\* the microtask at the head runs: fn is called
startFn(L) ==
    LET t == Head(L.microtasks)
    IN  [L EXCEPT !.microtasks = Tail(@),
                  !.started = Append(@, t),
                  !.running = @ \cup {t}]

\* .then((val) => { resolve(val); next(); }) for function t
onFulfilled(L, t) ==
    next([L EXCEPT !.running = @ \ {t},
                   !.promises[t] = [state |-> "fulfilled", of |-> t]])

\* onRejected without the call of next()
onRejectedKeepsSlot(L, t) ==
    [L EXCEPT !.running = @ \ {t},
              !.promises[t] = [state |-> "rejected", of |-> t]]

\* .catch((err) => { reject(err); next(); }) for function t
onRejected(L, t) ==
    next([L EXCEPT !.running = @ \ {t},
                   !.promises[t] = [state |-> "rejected", of |-> t]])

\* the state the limiter has no part in
exceptLimit == <<serverVars, slugVars, retryVars, webVars>>

\* a limiter made by pLimit(c), c >= 1
InitLimit ==
    /\ ServerIdle
    /\ SlugIdle
    /\ RetryIdle
    /\ WebIdle
    /\ \E c \in 1 .. MaxConcurrency : limiter = NewLimiter(c)
    /\ listFetches = 0

\* a function is given to the limiter
Submit ==
    /\ Len(limiter.promises) < MaxTasks
    /\ limiter' = limit(limiter)
    /\ UNCHANGED <<exceptLimit, listFetches>>

\* the function is called.  One that throws is called here and handled by
\* Rejected, as one whose promise rejects.
StartFn ==
    /\ limiter.microtasks # <<>>
    /\ limiter' = startFn(limiter)
    /\ UNCHANGED <<exceptLimit, listFetches>>

\* the promise of function t fulfilled
Fulfilled(t) ==
    /\ t \in limiter.running
    /\ limiter' = onFulfilled(limiter, t)
    /\ UNCHANGED <<exceptLimit, listFetches>>

\* the promise of function t rejected
Rejected(t) ==
    /\ t \in limiter.running
    /\ limiter' = onRejected(limiter, t)
    /\ UNCHANGED <<exceptLimit, listFetches>>

NextLimit ==
    \/ Submit
    \/ StartFn
    \/ \E t \in 1 .. MaxTasks : Fulfilled(t)
    \/ \E t \in 1 .. MaxTasks : Rejected(t)

\* microtasks run; what a called function returned settles (the condition
\* the limiter's progress is stated under)
LimitFairness ==
    /\ WF_vars(StartFn)
    /\ \A t \in 1 .. MaxTasks : WF_vars(Fulfilled(t) \/ Rejected(t))

SpecLimit == InitLimit /\ [][NextLimit]_vars /\ LimitFairness

(***************************************************************************)
(* The requests buildGroupedEvents sends to the ticketing API (lines       *)
(* 720-755): fetchAllEvents gets the list page by page, one request at a   *)
(* time and not through __limit; the venue and the date request of every   *)
(* listed event are then given to __limit, which all calls share.  A       *)
(* function __limit has called has a request in flight.                    *)
(***************************************************************************)
Max(a, b) == IF a > b THEN a ELSE b

\* n functions given to the limiter one after the other
RECURSIVE limitAll(_, _)
limitAll(L, n) == IF n = 0 THEN L ELSE limitAll(limit(L), n - 1)

\* __limit = pLimit(Math.max(1, TS_CONCURRENCY)), TS_CONCURRENCY at least 1
InitFanOut ==
    /\ ServerIdle
    /\ SlugIdle
    /\ RetryIdle
    /\ WebIdle
    /\ \E c \in 1 .. MaxConcurrency : limiter = NewLimiter(Max(1, c))
    /\ listFetches = 0

\* a route calls buildGroupedEvents, no fresh cache entry: fetchAllEvents
\* sends its request
ListFetchStarts ==
    /\ listFetches < MaxCalls
    /\ listFetches' = listFetches + 1
    /\ UNCHANGED <<exceptLimit, limiter>>

\* the last page of a list arrives with n events: events.map gives the n
\* venue requests, then the n date requests, to __limit
ListFetched(n) ==
    /\ listFetches > 0
    /\ Len(limiter.promises) + 2 * n <= MaxTasks
    /\ listFetches' = listFetches - 1
    /\ limiter' = limitAll(limiter, 2 * n)
    /\ UNCHANGED exceptLimit

\* fetchAllEvents throws: nothing is given to __limit
ListFetchFails ==
    /\ listFetches > 0
    /\ listFetches' = listFetches - 1
    /\ UNCHANGED <<exceptLimit, limiter>>

NextFanOut ==
    \/ ListFetchStarts
    \/ \E n \in 0 .. MaxListed : ListFetched(n)
    \/ ListFetchFails
    \/ StartFn
    \/ \E t \in 1 .. MaxTasks : Fulfilled(t)
    \/ \E t \in 1 .. MaxTasks : Rejected(t)

SpecFanOut == InitFanOut /\ [][NextFanOut]_vars

(***************************************************************************)
(* buildGroupedEvents and __eventsCache (lines 711-729, 731-736, 754-826): *)
(* the calls the routes make, each suspended while its list is fetched and *)
(* while its venue and date requests are under way, so that calls          *)
(* overlap.  null is written "": the code tests reference and ref for      *)
(* truth only, and both are false.  The data of a call carries the ref     *)
(* the list was fetched and filtered with (builtFor).                      *)
(***************************************************************************)
\* req.query.reference as clients send it, "" when the query has none
References == {"", "Spring", "__ALL__"}

\* .toLowerCase() of the references of requests and events
RefLowerCase ==
    ("" :> "") @@ ("Spring" :> "spring") @@ ("spring" :> "spring")
        @@ ("Summer" :> "summer") @@ ("__ALL__" :> "__all__") @@ ("__all__" :> "__all__")

\* the route: req.query.reference ? req.query.reference.toLowerCase() : null,
\* then reference ? String(reference).toLowerCase() : null
refOf(reference) ==
    LET r == IF reference # "" THEN RefLowerCase[reference] ELSE ""
    IN  IF r # "" THEN RefLowerCase[r] ELSE ""

\* ref || "__all__"
cacheKeyOf(ref) == IF ref # "" THEN ref ELSE "__all__"

\* isFresh taking an entry as old as the TTL for fresh
isFreshAtTtl(cached, now) ==
    cached # <<>> /\ now - cached[1].ts <= CacheTtl

\* cached && now - cached.ts < TS_CACHE_TTL_MS
isFresh(cached, now) ==
    cached # <<>> /\ now - cached[1].ts < CacheTtl

\* what the API lists: an event in Oundle and, in the longer list, one in
\* Bedford, each with one date to come
LastInstant == (MaxDay + 1) * TicksPerDay - 1
ApiLists ==
    LET inOundle == [town |-> "Oundle", reference |-> "Spring",
                     dates |-> <<UpstreamDate(LastInstant)>>]
        inBedford == [town |-> "Bedford", reference |-> "Summer",
                      dates |-> <<UpstreamDate(LastInstant - 1)>>]
    IN  {<<inOundle>>, <<inOundle, inBedford>>}

\* if (ref) events = events.filter(... reference?.toLowerCase() === ref)
filterByRef(events, ref) ==
    IF ref # ""
    THEN LET Same(event) == RefLowerCase[event.reference] = ref
         IN  SelectSeq(events, Same)
    ELSE events

\* townOfVenues naming no town when the venue request failed
townOfVenuesOrNone(event, fulfilled) ==
    IF fulfilled THEN event.town ELSE ""

\* venues[0]?.attributes?.address?.line_3 || "Unknown Town", venues being []
\* when the venue request was rejected
townOfVenues(event, fulfilled) ==
    IF fulfilled THEN event.town ELSE "Unknown Town"

\* the dates of the event, [] when the dates request was rejected
datesOfResponse(event, fulfilled) ==
    IF fulfilled THEN event.dates ELSE <<>>

\* events.forEach over the settled responses (lines 757-823)
groupSettled(events, venueOk, datesOk, today) ==
    GroupEvents([i \in 1 .. Len(events) |->
                    [town  |-> townOfVenues(events[i], venueOk[i]),
                     dates |-> datesOfResponse(events[i], datesOk[i])]],
                today, <<>>)

\* the state buildGroupedEvents and its cache have no part in
exceptCache == <<serverVars, slugVars, retryVars, limitVars, sitemapVars>>

InitCache ==
    /\ ServerIdle
    /\ SlugIdle
    /\ RetryIdle
    /\ LimitIdle
    /\ WebIdle

\* buildGroupedEvents as far as its first await, for a call made at the
\* time now with the cache as it is: a fresh entry is returned, otherwise
\* fetchAllEvents sends its request
callMade(reference, entries, now) ==
    LET ref == refOf(reference)
        cacheKey == cacheKeyOf(ref)
        cached == entries[cacheKey]
        call == [NoCall EXCEPT !.reference = reference, !.cacheKey = cacheKey,
                               !.cached = cached]
    IN  IF isFresh(cached, now)
        THEN [call EXCEPT !.pc = "returned", !.result = <<cached[1].data>>]
        ELSE [call EXCEPT !.pc = "fetching", !.fetched = TRUE]

\* the reference a request of the route passes to buildGroupedEvents
ReferencesOf(route) == IF route = "/api/events" THEN References ELSE {""}

\* a request of route c arrives: the route calls buildGroupedEvents(reference)
RouteCalls(c, reference) ==
    /\ calls[c].pc \in {"idle", "answered"}
    /\ calls' = [calls EXCEPT ![c] = callMade(reference, cacheEntries, clock)]
    /\ UNCHANGED <<exceptCache, clock, cacheEntries>>

\* the catch block of the list fetch: the entry the call read is served, or
\* the error is thrown on
listFailed(call) ==
    IF call.cached # <<>>
    THEN [call EXCEPT !.pc = "returned", !.result = <<call.cached[1].data>>]
    ELSE [call EXCEPT !.pc = "thrown"]

\* the list has arrived: it is filtered and the venue and date requests of
\* its events are sent
listArrived(call, list) ==
    [call EXCEPT !.pc = "details",
                 !.events = filterByRef(list, refOf(call.reference))]

\* the grouping made once the venue and date requests have settled
dataSettled(call, venueOk, datesOk, today) ==
    [builtFor |-> refOf(call.reference),
     groupedEvents |-> groupSettled(call.events, venueOk, datesOk, today)]

\* return groupedEvents
detailsSettled(call, venueOk, datesOk, today) ==
    [call EXCEPT !.pc = "returned", !.cached = <<>>,
                 !.venueOk = venueOk, !.datesOk = datesOk,
                 !.result = <<dataSettled(call, venueOk, datesOk, today)>>]

\* fetchAllEvents throws (after the retries of axiosGetWithRetry)
EventListFails(c) ==
    /\ calls[c].pc = "fetching"
    /\ calls' = [calls EXCEPT ![c] = listFailed(@)]
    /\ UNCHANGED <<exceptCache, clock, cacheEntries>>

\* fetchAllEvents returns the list: it is filtered and the venue and date
\* requests of its events are sent
EventListArrives(c, list) ==
    /\ calls[c].pc = "fetching"
    /\ calls' = [calls EXCEPT ![c] = listArrived(@, list)]
    /\ UNCHANGED <<exceptCache, clock, cacheEntries>>

\* Promise.allSettled of the venue and of the date requests: the events are
\* grouped, the entry of the key is set, the grouping is returned
DetailsSettle(c, venueOk, datesOk) ==
    /\ calls[c].pc = "details"
    /\ LET today == startOfTodayLocal(clockDay)
       IN  /\ cacheEntries' =
                  [cacheEntries EXCEPT ![calls[c].cacheKey] =
                      <<[ts |-> clock,
                         data |-> dataSettled(calls[c], venueOk, datesOk, today)]>>]
           /\ calls' = [calls EXCEPT ![c] =
                  detailsSettled(@, venueOk, datesOk, today)]
    /\ UNCHANGED <<exceptCache, clock>>

\* the route that made the call responds: res.json(...) or, from its catch
\* block, status 500; the request is over
RouteAnswers(c) ==
    /\ calls[c].pc \in {"returned", "thrown"}
    /\ calls' = [calls EXCEPT ![c] =
           [NoCall EXCEPT !.pc = "answered",
                          !.code = IF calls[c].pc = "thrown" THEN 500 ELSE 200]]
    /\ UNCHANGED <<exceptCache, clock, cacheEntries>>

\* time passes
ClockTicks ==
    /\ clock < MaxClock
    /\ clock' = clock + 1
    /\ UNCHANGED <<exceptCache, cacheEntries, calls>>

\* every request of the events fulfilled
AllFulfilled(events) == [i \in 1 .. Len(events) |-> TRUE]

\* The requests of both routes, overlapping in every way.  The venue and
\* date requests all fulfil here; SpecDetails has them fail.
NextCache ==
    \/ \E c \in Routes : \E reference \in ReferencesOf(c) : RouteCalls(c, reference)
    \/ \E c \in Routes : EventListFails(c)
    \/ \E c \in Routes, list \in ApiLists : EventListArrives(c, list)
    \/ \E c \in Routes :
          DetailsSettle(c, AllFulfilled(calls[c].events), AllFulfilled(calls[c].events))
    \/ \E c \in Routes : RouteAnswers(c)
    \/ ClockTicks

SpecCache == InitCache /\ [][NextCache]_vars

\* The requests of one route, one after the other, any of the venue and date
\* requests of a call failing.
NextDetails ==
    \/ \E reference \in References : RouteCalls("/api/events", reference)
    \/ EventListFails("/api/events")
    \/ \E list \in ApiLists : EventListArrives("/api/events", list)
    \/ \E venueOk, datesOk \in [1 .. Len(calls["/api/events"].events) -> BOOLEAN] :
          DetailsSettle("/api/events", venueOk, datesOk)
    \/ RouteAnswers("/api/events")
    \/ ClockTicks

SpecDetails == InitCache /\ [][NextDetails]_vars

(***************************************************************************)
(* GET /sitemap.xml and sitemapCache (lines 11-13, 908-978).  The XML is   *)
(* the sorted list of the distinct URLs, so it is given by their set; a    *)
(* URL is its path, the requests being made to one host.  A path is the    *)
(* sequence of its parts, the slug as slugifyTown spells it.  The ETag is   *)
(* the pair of the length and the time it is made of.                      *)
(***************************************************************************)
SitemapTtl == 3

\* comingSoonDays: 365, beyond every date of the tour
SitemapSoonDays == MaxDay + 1

\* the town names letter by letter
TownSpelling ==
    ("Oundle" :> <<"O", "u", "n", "d", "l", "e">>)
        @@ ("Bedford" :> <<"B", "e", "d", "f", "o", "r", "d">>)
        @@ ("Corby" :> <<"C", "o", "r", "b", "y">>)
        @@ ("Unknown Town" :>
                <<"U", "n", "k", "n", "o", "w", "n", " ", "T", "o", "w", "n">>)
        @@ ("St Ives" :> <<"S", "t", " ", "I", "v", "e", "s">>)
        @@ ("St. Ives" :> <<"S", "t", ".", " ", "I", "v", "e", "s">>)
        @@ ("!!" :> <<"!", "!">>)

\* townSlug: slugifyTown(town) (line 852)
townSlugOf(town) == slugifyTown(TownSpelling[town])

\* staticPaths, two of them standing for all
StaticPaths == {<<"/">>, <<"/tour-locations">>}

\* townIndex.map((t) => `/circus-in/${t.townSlug}`)
townPaths(townIndex) ==
    {<<"/circus-in/">> \o townSlugOf(townIndex[i].town) : i \in 1 .. Len(townIndex)}

\* the XML built from the grouped events (lines 951-967)
sitemapXml(groupedEvents, day) ==
    <<StaticPaths \cup townPaths(buildTownIndex(groupedEvents, SitemapSoonDays, day))>>

\* "W/\"" + Buffer.from(xml).length + "-" + Date.now().toString(16) + "\""
etagOf(xml, now) == <<Cardinality(xml[1]), now>>

\* sitemapCache.xml && now - sitemapCache.ts < SITEMAP_TTL_MS
sitemapFresh(cache, now) == cache.xml # <<>> /\ now - cache.ts < SitemapTtl

\* notModified answering 304 to whatever If-None-Match is sent
notModifiedAnyTag(cache, header) == cache.etag # <<>> /\ header # <<>>

\* sitemapCache.etag && req.headers["if-none-match"] === sitemapCache.etag
notModified(cache, header) == cache.etag # <<>> /\ header = cache.etag

\* the response from the fresh cache (lines 915-921)
servedFromCache(cache, header) ==
    IF notModified(cache, header)
    THEN [NoRequest EXCEPT !.pc = "answered", !.ifNoneMatch = header, !.code = 304]
    ELSE [NoRequest EXCEPT !.pc = "answered", !.ifNoneMatch = header, !.code = 200,
                           !.body = cache.xml, !.etag = cache.etag]

\* the request r after a step of its call: still waiting, or the sitemap is
\* built, cached and sent (lines 951-973), or the catch block answers 500
afterCall(r, cache, now, day) ==
    IF r.call.pc = "returned"
    THEN LET xml == sitemapXml(r.call.result[1].groupedEvents, day)
             etag == etagOf(xml, now)
         IN  [req |-> [NoRequest EXCEPT !.pc = "answered",
                                        !.ifNoneMatch = r.ifNoneMatch,
                                        !.code = 200, !.body = xml, !.etag = etag],
              cache |-> [xml |-> xml, ts |-> now, etag |-> etag]]
    ELSE IF r.call.pc = "thrown"
    THEN [req |-> [NoRequest EXCEPT !.pc = "answered",
                                    !.ifNoneMatch = r.ifNoneMatch, !.code = 500],
          cache |-> cache]
    ELSE [req |-> [r EXCEPT !.pc = "building"], cache |-> cache]

\* the If-None-Match headers sent: none, the ETag of the cached sitemap, one
\* the server never made
IfNoneMatchHeaders(cache) == {<<>>, <<0, 0>>} \cup {cache.etag}

\* the state GET /sitemap.xml has no part in
exceptSitemap == <<serverVars, slugVars, retryVars, limitVars, calls>>

\* a GET /sitemap.xml request of crawler s arrives
SitemapRequest(s, header) ==
    /\ sitemapReqs[s].pc \in {"idle", "answered"}
    /\ IF sitemapFresh(sitemapCache, clock)
       THEN /\ sitemapReqs' =
                   [sitemapReqs EXCEPT ![s] = servedFromCache(sitemapCache, header)]
            /\ UNCHANGED sitemapCache
       ELSE LET r == [NoRequest EXCEPT
                         !.ifNoneMatch = header,
                         !.call = callMade("", cacheEntries, clock)]
                out == afterCall(r, sitemapCache, clock, clockDay)
            IN  /\ sitemapReqs' = [sitemapReqs EXCEPT ![s] = out.req]
                /\ sitemapCache' = out.cache
    /\ UNCHANGED <<exceptSitemap, clock, cacheEntries>>

\* the list fetch of the request's call fails
SitemapListFails(s) ==
    /\ sitemapReqs[s].pc = "building"
    /\ sitemapReqs[s].call.pc = "fetching"
    /\ LET r == [sitemapReqs[s] EXCEPT !.call = listFailed(@)]
           out == afterCall(r, sitemapCache, clock, clockDay)
       IN  /\ sitemapReqs' = [sitemapReqs EXCEPT ![s] = out.req]
           /\ sitemapCache' = out.cache
    /\ UNCHANGED <<exceptSitemap, clock, cacheEntries>>

\* the list of the request's call arrives
SitemapListArrives(s, list) ==
    /\ sitemapReqs[s].pc = "building"
    /\ sitemapReqs[s].call.pc = "fetching"
    /\ sitemapReqs' = [sitemapReqs EXCEPT ![s].call = listArrived(@, list)]
    /\ UNCHANGED <<exceptSitemap, clock, cacheEntries, sitemapCache>>

\* the venue and date requests of the request's call settle, all fulfilled
SitemapDetailsSettle(s) ==
    /\ sitemapReqs[s].pc = "building"
    /\ sitemapReqs[s].call.pc = "details"
    /\ LET call == sitemapReqs[s].call
           ok == AllFulfilled(call.events)
           today == startOfTodayLocal(clockDay)
           r == [sitemapReqs[s] EXCEPT !.call = detailsSettled(call, ok, ok, today)]
           out == afterCall(r, sitemapCache, clock, clockDay)
       IN  /\ cacheEntries' =
                  [cacheEntries EXCEPT ![call.cacheKey] =
                      <<[ts |-> clock, data |-> dataSettled(call, ok, ok, today)]>>]
           /\ sitemapReqs' = [sitemapReqs EXCEPT ![s] = out.req]
           /\ sitemapCache' = out.cache
    /\ UNCHANGED <<exceptSitemap, clock>>

NextSitemap ==
    \/ \E s \in Crawlers : \E header \in IfNoneMatchHeaders(sitemapCache) :
          SitemapRequest(s, header)
    \/ \E s \in Crawlers : SitemapListFails(s)
    \/ \E s \in Crawlers, list \in ApiLists : SitemapListArrives(s, list)
    \/ \E s \in Crawlers : SitemapDetailsSettle(s)
    \/ ClockTicks

SpecSitemap == InitCache /\ [][NextSitemap]_vars

(***************************************************************************)
(* The sitemap and the town pages it lists (lines 950-952, 1108-1130,      *)
(* 1464-1466): a crawler reads the sitemap and asks for one of the town    *)
(* paths in it while the grouped events and the day are the same.  The     *)
(* towns are ones whose slugs are told apart, coincide, or are empty.      *)
(***************************************************************************)
MaxPageEvents == 2
PageTowns == {"Oundle", "St Ives", "St. Ives", "!!"}

\* the route patterns that can answer a town path
TownPageRoute == "/circus-in/:townSlug"
FallbackRoute == "*"

\* GET path, the path being "/circus-in/" and a slug: the town page route
\* takes a path whose townSlug is not empty, builds its index with
\* comingSoonDays and looks the slug up; any other path falls through to
\* the fallback, which sends index.html
pageAnswer(path, groupedEvents, comingSoonDays, day) ==
    LET param == Tail(path)
    IN  IF param = <<>>
        THEN [path |-> path, route |-> FallbackRoute,
              comingSoonDays |-> comingSoonDays, code |-> 200]
        ELSE LET townIndex == buildTownIndex(groupedEvents, comingSoonDays, day)
                 slug == toLowerCase(param)
                 found == \E i \in 1 .. Len(townIndex) :
                              townSlugOf(townIndex[i].town) = slug
             IN  [path |-> path, route |-> TownPageRoute,
                  comingSoonDays |-> comingSoonDays,
                  code |-> IF found THEN 200 ELSE 404]

\* what the sitemap route lists for the grouped events as of the day
sitemapListing(groupedEvents, day) ==
    <<[groupedEvents |-> groupedEvents,
       day   |-> day,
       paths |-> townPaths(buildTownIndex(groupedEvents, SitemapSoonDays, day)),
       asked |-> <<>>]>>

InitTownPage ==
    /\ \E n \in 0 .. MaxPageEvents :
         \E ts \in [1 .. n -> PageTowns], ds \in [1 .. n -> Instants] :
             upstream = UpstreamList(n, ts, ds)
    /\ clockDay = FirstClockDay
    /\ eventsCache = <<>>
    /\ response = <<>>
    /\ HelpersIdle

\* GET /sitemap.xml, the events fetched
SitemapFetched ==
    /\ response = <<>>
    /\ LET groupedEvents == GroupEvents(upstream, startOfTodayLocal(clockDay), <<>>)
       IN  /\ eventsCache' = <<groupedEvents>>
           /\ response' = sitemapListing(groupedEvents, clockDay)
    /\ UNCHANGED <<upstream, clockDay>>
    /\ UNCHANGED helperVars

\* GET /sitemap.xml, the events taken from the cache entry
SitemapCached ==
    /\ response = <<>>
    /\ eventsCache # <<>>
    /\ response' = sitemapListing(eventsCache[1], clockDay)
    /\ UNCHANGED <<upstream, clockDay, eventsCache>>
    /\ UNCHANGED helperVars

\* the crawler asks for a town path of the sitemap: the page route gets the
\* same grouped events from the cache
PageRequested(path, comingSoonDays) ==
    /\ response # <<>>
    /\ response[1].asked = <<>>
    /\ path \in response[1].paths
    /\ response' = <<[response[1] EXCEPT !.asked =
           <<pageAnswer(path, response[1].groupedEvents, comingSoonDays,
                        response[1].day)>>]>>
    /\ UNCHANGED <<upstream, clockDay, eventsCache>>
    /\ UNCHANGED helperVars

NextTownPage ==
    \/ SitemapFetched
    \/ SitemapCached
    \/ \E path \in {<<"/circus-in/">> \o townSlugOf(t) : t \in PageTowns},
          n \in 0 .. MaxComingSoonDays : PageRequested(path, n)
    \/ Respond
    \/ Midnight

SpecTownPage == InitTownPage /\ [][NextTownPage]_vars

(***************************************************************************)
(* What the claims are stated with: the call a route made (the grouped     *)
(* events it passed, comingSoonDays, the day) and the list it got back.    *)
(***************************************************************************)
Served == response # <<>> /\ response[1].code = 200
Call == response[1]
Out == Call.townIndex
OutIdx == 1 .. Len(Out)
InIdx == 1 .. Len(Call.groupedEvents)

DayOf(dt) == dt \div TicksPerDay
TodayMidnight == startOfTodayLocal(Call.day)
StartOf(t) == ParseDate(t.startDateISO)
EndOf(t) == ParseDate(t.endDateISO)

SetMin(S) == CHOOSE m \in S : \A x \in S : m <= x
SetMax(S) == CHOOSE m \in S : \A x \in S : x <= m

\* every instant of the k-th town passed in, and those not before today
InstantsOf(k) ==
    LET evs == EventsOf(Call.groupedEvents[k])
    IN  UNION {{ParseDate(DatesOf(evs[i])[j].startISO) : j \in 1 .. Len(DatesOf(evs[i]))} :
                  i \in 1 .. Len(evs)}
FutureOf(k) == {x \in InstantsOf(k) : x >= TodayMidnight}

\* the records returned for the k-th town passed in, and its status
RecOf(k) == {i \in OutIdx : Out[i].town = Call.groupedEvents[k].town}
StatusOfTown(k) ==
    IF RecOf(k) = {} THEN "ABSENT" ELSE Out[CHOOSE i \in RecOf(k) : TRUE].status
InputPos(town) == CHOOSE k \in InIdx : Call.groupedEvents[k].town = town

InTown == {i \in OutIdx : Out[i].status \in {"IN_TOWN_NOW", "FINAL_DAY"}}
Promoted == {i \in OutIdx : Out[i].status = "NEXT_STOP"}

\* C1: a town whose latest performance not before today is on today's
\* calendar day, at whatever time of day, is returned with status FINAL_DAY.
C1_FinalDayToday ==
    Served =>
        \A k \in InIdx :
            (FutureOf(k) # {} /\ DayOf(SetMax(FutureOf(k))) = Call.day)
                => StatusOfTown(k) = "FINAL_DAY"

\* C2: a town whose earliest performance is on or before today's calendar
\* day and whose latest is on a later calendar day is IN_TOWN_NOW.
C2_InTownNow ==
    Served =>
        \A k \in InIdx :
            (/\ InstantsOf(k) # {}
             /\ DayOf(SetMin(InstantsOf(k))) <= Call.day
             /\ DayOf(SetMax(InstantsOf(k))) > Call.day)
                => StatusOfTown(k) = "IN_TOWN_NOW"

\* C3: of two towns, A playing only today at a daytime hour and B playing
\* only on a later day, A is FINAL_DAY and B is NEXT_STOP.
C3_OundleBedford ==
    (Served /\ Len(Call.groupedEvents) = 2) =>
        \A a, b \in InIdx :
            (/\ a # b
             /\ \E x \in Instants :
                    /\ InstantsOf(a) = {x}
                    /\ DayOf(x) = Call.day
                    /\ x # TodayMidnight
             /\ \E y \in Instants :
                    /\ InstantsOf(b) = {y}
                    /\ DayOf(y) > Call.day)
                => (StatusOfTown(a) = "FINAL_DAY" /\ StatusOfTown(b) = "NEXT_STOP")

\* C4: with comingSoonDays = N >= 1, a town that is not promoted to NEXT_STOP
\* is COMING_SOON when its first performance is on day today+N, at whatever
\* time of day, and LATER when it is on day today+N+1.
C4_ComingSoonBoundary ==
    (Served /\ Call.comingSoonDays >= 1) =>
        \A k \in InIdx :
            (InstantsOf(k) # {} /\ StatusOfTown(k) # "NEXT_STOP") =>
                LET first == DayOf(SetMin(InstantsOf(k)))
                IN  /\ first = Call.day + Call.comingSoonDays
                            => StatusOfTown(k) = "COMING_SOON"
                    /\ first = Call.day + Call.comingSoonDays + 1
                            => StatusOfTown(k) = "LATER"

StatusRank(st) ==
    CASE st = "FINAL_DAY" -> 0
      [] st = "IN_TOWN_NOW" -> 1
      [] st \in {"NEXT_STOP", "COMING_SOON"} -> 2
      [] OTHER -> 3

\* C5: the list returned is sorted by status rank (FINAL_DAY, IN_TOWN_NOW,
\* NEXT_STOP or COMING_SOON, LATER) and by ascending start within a rank.
C5_SortedByRank ==
    Served =>
        \A i, j \in OutIdx :
            i < j =>
                \/ StatusRank(Out[i].status) < StatusRank(Out[j].status)
                \/ /\ StatusRank(Out[i].status) = StatusRank(Out[j].status)
                   /\ StartOf(Out[i]) <= StartOf(Out[j])

NextStopLimit ==
    IF InTown # {} THEN SetMax({EndOf(Out[i]) : i \in InTown}) ELSE TodayMidnight
NextStopCandidates == {i \in OutIdx : StartOf(Out[i]) > NextStopLimit}

C7_SingleNextStop ==
    Served =>
        /\ Cardinality(Promoted) <= 1
        /\ \A p \in Promoted, q \in OutIdx :
               (q # p /\ StartOf(Out[q]) = StartOf(Out[p]))
                   => InputPos(Out[p].town) < InputPos(Out[q].town)
C7_Witness ==
    /\ Served
    /\ \E p \in Promoted, q \in OutIdx :
           /\ q # p
           /\ StartOf(Out[q]) = StartOf(Out[p])
           /\ Out[q].status \in {"COMING_SOON", "LATER"}

\* C8: a town with no instant at or after the start of today has no record in
\* the list, and every status in the list is one of the five emitted ones.
C8_NoPastTown ==
    Served =>
        /\ \A k \in InIdx : FutureOf(k) = {} => RecOf(k) = {}
        /\ \A i \in OutIdx :
               Out[i].status \in
                   {"FINAL_DAY", "IN_TOWN_NOW", "NEXT_STOP", "COMING_SOON", "LATER"}
C8_Witness ==
    /\ Served
    /\ \E k \in InIdx : InstantsOf(k) # {} /\ FutureOf(k) = {} /\ RecOf(k) = {}
    /\ Promoted # {}
    /\ InTown # {}

\* C9: every record has startDateISO <= endDateISO, the first being the
\* earliest and the second the latest of the town's instants that are not
\* before the start of today, also for grouped events built on an earlier day.
C9_RangeOfFutureInstants ==
    Served =>
        \A i \in OutIdx :
            LET k == InputPos(Out[i].town)
            IN  /\ StartOf(Out[i]) <= EndOf(Out[i])
                /\ FutureOf(k) # {}
                /\ StartOf(Out[i]) = SetMin(FutureOf(k))
                /\ EndOf(Out[i]) = SetMax(FutureOf(k))

\* C10: with comingSoonDays = 0 a town whose first performance is today, at
\* whatever time of day, is IN_TOWN_NOW or FINAL_DAY.
C10_ZeroWindowToday ==
    (Served /\ Call.comingSoonDays = 0) =>
        \A k \in InIdx :
            (InstantsOf(k) # {} /\ DayOf(SetMin(InstantsOf(k))) = Call.day)
                => StatusOfTown(k) \in {"IN_TOWN_NOW", "FINAL_DAY"}

\* a route or a caller got an exception out of buildTownIndex
Raised == response # <<>> /\ "threw" \in DOMAIN response[1]
Called == response # <<>> /\ "groupedEvents" \in DOMAIN response[1]
ValidInstantsOf(k) == InstantsOf(k) \ {NaN}

\* C11: a date whose startISO cannot be parsed is dropped without an
\* exception, wherever it is among the town's dates: buildTownIndex returns a
\* list, each town's range is the earliest and latest of its valid instants,
\* and every town with a valid instant that is not past is in the list.
C11_BadDateDropped ==
    Called =>
        /\ ~Raised
        /\ \A k \in InIdx :
               LET V == ValidInstantsOf(k)
               IN  (V # {} /\ SetMax(V) >= TodayMidnight) =>
                       \E i \in RecOf(k) :
                           /\ StartOf(Out[i]) = SetMin(V)
                           /\ EndOf(Out[i]) = SetMax(V)

\* C12: buildTownIndex raises on no malformed record: an event without a dates
\* field and a town whose value is no array contribute no dates, and every
\* town with a date that is not past is in the list.
C12_MalformedTolerated ==
    Called =>
        /\ ~Raised
        /\ \A k \in InIdx :
               (InstantsOf(k) # {} /\ SetMax(InstantsOf(k)) >= TodayMidnight)
                   => RecOf(k) # {}

\* C13: the grouped events buildGroupedEvents returns, built now or taken
\* from the cache, hold only dates not before the start of today, no event
\* without a date and no town without an event.
C13_ReturnedGroupingIsCurrent ==
    Called =>
        \A k \in InIdx :
            LET evs == EventsOf(Call.groupedEvents[k])
            IN  /\ Len(evs) > 0
                /\ \A i \in 1 .. Len(evs) : Len(DatesOf(evs[i])) > 0
                /\ \A x \in InstantsOf(k) : x >= TodayMidnight

ExampleSlugs ==
    << <<"s", "t", "r", "a", "t", "f", "o", "r", "d", "-", "u", "p", "o", "n", "-", "a", "v", "o", "n">>,
       <<"b", "u", "r", "y", "-", "s", "t", "-", "e", "d", "m", "u", "n", "d", "s">>,
       <<"a", "-", "a", "n", "d", "-", "b", "-", "t", "o", "w", "n">> >>
\* how many times the characters of w occur in a row in s
Occurrences(s, w) ==
    Cardinality({i \in 1 .. Len(s) - Len(w) + 1 : SubSeq(s, i, i + Len(w) - 1) = w})

\* C15: the string slugifyTown returns is made of a-z, 0-9 and hyphens, does
\* not start or end with a hyphen, has no two hyphens in a row, has an "and"
\* for every & of the name, is its own slug, and is the stated slug for the
\* three example names.
C15_SlugShape ==
    slugOut # <<>> =>
        LET slug == slugOut[1]
        IN  /\ \A i \in DOMAIN slug :
                   slug[i] \in Range(LowerCase) \cup Digits \cup {"-"}
            /\ slug # <<>> => Head(slug) # "-" /\ slug[Len(slug)] # "-"
            /\ Occurrences(slug, <<"-", "-">>) = 0
            /\ Occurrences(slug, <<"a", "n", "d">>) >= Occurrences(slugIn, <<"&">>)
            /\ slugifyTown(slug) = slug
            /\ \A k \in DOMAIN ExampleTowns :
                   slugIn = ExampleTowns[k] => slug = ExampleSlugs[k]
C15_Witness ==
    /\ slugOut # <<>>
    /\ Len(slugIn) = MaxNameLen
    /\ Head(slugIn) = " "
    /\ slugIn[2] = "&"
    /\ slugIn[3] = "!"
    /\ slugIn[4] = "-"
    /\ slugOut[1] = <<"a", "n", "d">>

\* the requests a call of axiosGetWithRetry has made, the one in flight included
Attempts == Len(requests) + (IF retryPc = "get" THEN 1 ELSE 0)
RetrySafe ==
    /\ Attempts <= TS_MAX_RETRIES + 1
    /\ \A i \in DOMAIN requests :
           requests[i].status = 200 =>
               /\ i = Len(requests)
               /\ retryPc = "done"
               /\ settled = <<[kind |-> "returned", value |-> requests[i]]>>
    /\ (settled # <<>> /\ settled[1].kind = "returned") =>
           /\ requests # <<>>
           /\ settled[1].value = requests[Len(requests)]
           /\ settled[1].value.status = 200
    /\ (settled # <<>> /\ settled[1].kind = "thrown") =>
           /\ requests # <<>>
           /\ settled[1].value = requests[Len(requests)]
           /\ \A i \in DOMAIN requests : requests[i].status # 200

\* C16: axiosGetWithRetry makes at most TS_MAX_RETRIES + 1 requests and
\* ends; it returns the first response that succeeded and makes no request
\* after it; when every request failed it throws the error of the last one.
C16_BoundedRetry == []RetrySafe /\ <>(settled # <<>>)
C16_Witness ==
    /\ settled # <<>>
    /\ settled[1].kind = "thrown"
    /\ TS_MAX_RETRIES = DefaultMaxRetries
    /\ Len(requests) = TS_MAX_RETRIES + 1
    /\ settled[1].value.status = 503

\* the failures the retry is for: no status, 429, 500-599
Transient(err) ==
    \/ err.status = Null
    \/ err.status = 429
    \/ err.status \in 500 .. 599
\* the wait after the request of the given attempt failed with err
StatedBackoff(err, a) ==
    IF /\ err.retryAfter # NoHeader
       /\ RetryAfterNumber[err.retryAfter] # NaN
       /\ RetryAfterNumber[err.retryAfter] > 0
    THEN RetryAfterNumber[err.retryAfter] * 1000
    ELSE BackoffTable[IF a + 1 < Len(BackoffTable) THEN a + 1 ELSE Len(BackoffTable)]

\* C17: only a transient failure (no status, 429, 500-599) is retried, after
\* a wait of Retry-After seconds when that header is a positive number and
\* of 600, 1400, 2600 ms by attempt otherwise; an error with another status
\* is thrown at once, with no wait and no further request.
C17_TransientOnly ==
    /\ \A i \in DOMAIN waits :
           /\ Transient(requests[i])
           /\ waits[i] = StatedBackoff(requests[i], i - 1)
    /\ \A i \in DOMAIN requests :
           /\ (requests[i].status # 200 /\ ~Transient(requests[i])) =>
                  /\ i = Len(requests)
                  /\ Len(waits) = i - 1
                  /\ settled = <<[kind |-> "thrown", value |-> requests[i]]>>
           /\ (Transient(requests[i]) /\ i <= TS_MAX_RETRIES) => Len(waits) >= i

\* the functions given to the limiter so far
Submitted == 1 .. Len(limiter.promises)
\* how many times t occurs in the sequence s
Times(s, t) == Cardinality({i \in DOMAIN s : s[i] = t})

\* C18: a limiter made by pLimit(c), c >= 1, has between 0 and c functions
\* called and not yet settled, calls no function twice, and calls the
\* functions in the order they were given to it.
C18_LimitHolds ==
    /\ Cardinality(limiter.running) >= 0
    /\ Cardinality(limiter.running) <= limiter.concurrency
    /\ \A t \in Submitted :
           Times(limiter.started, t) + Times(limiter.queue, t)
               + Times(limiter.microtasks, t) = 1
    /\ \A i, j \in DOMAIN limiter.started :
           i < j => limiter.started[i] < limiter.started[j]
    /\ \A i \in DOMAIN limiter.started : limiter.started[i] \in Submitted
C18_Witness ==
    /\ limiter.concurrency = MaxConcurrency
    /\ Cardinality(limiter.running) = limiter.concurrency
    /\ Len(limiter.queue) >= 1
    /\ Len(limiter.started) > limiter.concurrency
    /\ \E t \in Submitted : limiter.promises[t].state = "rejected"

\* the slots taken are those of the functions scheduled or running
NoSlotLost ==
    /\ limiter.activeCount = Cardinality(limiter.running) + Len(limiter.microtasks)
    /\ limiter.queue # <<>> => limiter.activeCount = limiter.concurrency
    /\ \A t \in Submitted :
           limiter.promises[t].state # "pending" =>
               /\ limiter.promises[t].of = t
               /\ Times(limiter.started, t) = 1
               /\ t \notin limiter.running

\* the promise returned for function t has settled
Settled(t) == t \in Submitted /\ limiter.promises[t].state # "pending"

\* C19: a function that rejects frees its slot as one that fulfils does, so
\* when every called function settles, every function given to the limiter
\* is called in the end and its promise settles with its own result.
C19_NoStrandedWork ==
    /\ []NoSlotLost
    /\ \A t \in 1 .. MaxTasks :
           (t \in Submitted) ~> (t \in Range(limiter.started) /\ Settled(t))
C19_Witness ==
    /\ limiter.concurrency = 1
    /\ Len(limiter.promises) = MaxTasks
    /\ \A t \in Submitted : limiter.promises[t].state = "rejected"

\* the requests to the ticketing API that are in flight
InFlight == listFetches + Cardinality(limiter.running)

\* C20: the requests to the ticketing API in flight at the same moment, list
\* pages, venue requests and date requests together, are never more than
\* TS_CONCURRENCY, however many calls of buildGroupedEvents are under way.
C20_BoundedParallelism == InFlight <= limiter.concurrency

\* a request of route c arrives in this step and calls buildGroupedEvents
CallMadeNow(c) ==
    calls[c].pc \in {"idle", "answered"} /\ calls'[c].pc \notin {"idle", "answered"}
\* the list fetch of the call of route c fails in this step
ListFailsNow(c) ==
    calls[c].pc = "fetching" /\ calls'[c].pc \in {"returned", "thrown"}

\* C21: a call made while the entry of its key is younger than the TTL
\* returns the data of that entry and sends no request to the API; a call
\* made when there is no entry or the entry is as old as the TTL or older
\* sends one.
C21_TtlGate ==
    [][\A c \in Routes :
          CallMadeNow(c) =>
              LET entry == cacheEntries[calls'[c].cacheKey]
              IN  IF entry # <<>> /\ clock - entry[1].ts < CacheTtl
                  THEN /\ calls'[c].pc = "returned"
                       /\ calls'[c].result = <<entry[1].data>>
                       /\ ~calls'[c].fetched
                       /\ cacheEntries' = cacheEntries
                  ELSE /\ calls'[c].pc = "fetching"
                       /\ calls'[c].fetched
                       /\ calls'[c].result = <<>>]_vars
C21_Witness ==
    \E c \in Routes :
        /\ calls[c].pc = "returned"
        /\ ~calls[c].fetched
        /\ clock = cacheEntries[calls[c].cacheKey][1].ts + CacheTtl - 1

\* C22: when the list fetch of a call fails, the data of the entry of the
\* key is returned if there is one, whatever its age, and the entry stays as
\* it is; if there is none the error is thrown, the key stays without entry
\* and the route answers 500.
C22_StaleOnFailure ==
    [][\A c \in Routes :
          /\ ListFailsNow(c) =>
                 LET entry == cacheEntries[calls[c].cacheKey]
                 IN  /\ cacheEntries' = cacheEntries
                     /\ IF entry # <<>>
                        THEN /\ calls'[c].pc = "returned"
                             /\ calls'[c].result = <<entry[1].data>>
                        ELSE calls'[c].pc = "thrown"
          /\ (calls[c].pc = "thrown" /\ calls'[c] # calls[c]) =>
                 (calls'[c].pc = "answered" /\ calls'[c].code = 500)]_vars

\* the towns under which the grouping g holds an event with the date iso
TownsHolding(g, iso) ==
    {g[k].town : k \in {k \in 1 .. Len(g) :
        \E j \in 1 .. Len(g[k].events) :
            \E m \in 1 .. Len(g[k].events[j].dates) :
                g[k].events[j].dates[m].startISO = iso}}
\* the venue and date requests of the call of route c settle in this step
DetailsSettleNow(c) ==
    calls[c].pc = "details" /\ calls'[c].pc = "returned"

\* C23: once the list has arrived the call returns however many of its venue
\* and date requests fail: an event whose dates request failed is in no
\* group, an event whose venue request failed is under "Unknown Town", every
\* other event is under its own town, and the entry of the key becomes this
\* result with the time of that moment.
C23_PartialFailures ==
    [][\A c \in Routes :
          DetailsSettleNow(c) =>
              LET events == calls[c].events
                  venueOk == calls'[c].venueOk
                  datesOk == calls'[c].datesOk
                  g == calls'[c].result[1].groupedEvents
              IN  /\ \A i \in 1 .. Len(events) :
                         TownsHolding(g, events[i].dates[1]) =
                             IF ~datesOk[i] THEN {}
                             ELSE IF ~venueOk[i] THEN {"Unknown Town"}
                             ELSE {events[i].town}
                  /\ cacheEntries'[calls[c].cacheKey] =
                         <<[ts |-> clock', data |-> calls'[c].result[1]]>>
                  /\ isFresh(cacheEntries'[calls[c].cacheKey], clock')]_vars
C23_Witness ==
    \E c \in Routes :
        /\ calls[c].pc = "returned"
        /\ calls[c].venueOk = <<FALSE, TRUE>>
        /\ calls[c].datesOk = <<TRUE, FALSE>>
        /\ Len(calls[c].result[1].groupedEvents) = 1
        /\ calls[c].result[1].groupedEvents[1].town = "Unknown Town"
        /\ cacheEntries[calls[c].cacheKey] # <<>>
        /\ cacheEntries[calls[c].cacheKey][1].data = calls[c].result[1]

\* C24: the data a call returns was fetched and filtered for the reference
\* of that call, and the entry the unfiltered callers are served from holds
\* data of an unfiltered fetch, whatever references the clients send.
C24_NoAliasing ==
    /\ \A c \in Routes :
           calls[c].pc = "returned" =>
               calls[c].result[1].builtFor = refOf(calls[c].reference)
    /\ cacheEntries["__all__"] # <<>> =>
           cacheEntries["__all__"][1].data.builtFor = ""

\* a GET /sitemap.xml request of crawler s arrives in this step
SitemapArrivesNow(s) ==
    sitemapReqs[s].pc \in {"idle", "answered"} /\ sitemapReqs'[s] # sitemapReqs[s]
\* the rebuild of crawler s's request fails in this step: its list fetch
\* fails and its call had read no entry to fall back on
RebuildFailsNow(s) ==
    /\ sitemapReqs[s].pc = "building"
    /\ sitemapReqs[s].call.pc = "fetching"
    /\ sitemapReqs[s].call.cached = <<>>
    /\ sitemapReqs'[s].pc = "answered"

\* C25: a request arriving while the cached sitemap is younger than
\* SITEMAP_TTL_MS sends nothing to the API and leaves both caches alone; it
\* is answered 304 without body exactly when its If-None-Match is the cached
\* ETag, otherwise 200 with the cached XML and ETag.  A rebuild that fails
\* is answered 500 and leaves the cached sitemap as it was.
C25_FreshSitemap ==
    [][\A s \in Crawlers :
          /\ (/\ SitemapArrivesNow(s)
              /\ sitemapCache.xml # <<>>
              /\ clock - sitemapCache.ts < SitemapTtl) =>
                 LET r == sitemapReqs'[s]
                 IN  /\ r.pc = "answered"
                     /\ ~r.call.fetched
                     /\ cacheEntries' = cacheEntries
                     /\ sitemapCache' = sitemapCache
                     /\ IF r.ifNoneMatch = sitemapCache.etag
                        THEN r.code = 304 /\ r.body = <<>>
                        ELSE /\ r.code = 200
                             /\ r.body = sitemapCache.xml
                             /\ r.etag = sitemapCache.etag
          /\ RebuildFailsNow(s) =>
                 /\ sitemapReqs'[s].code = 500
                 /\ sitemapReqs'[s].body = <<>>
                 /\ sitemapCache' = sitemapCache]_vars
C25_Witness ==
    /\ sitemapCache.xml # <<>>
    /\ clock - sitemapCache.ts < SitemapTtl
    /\ \E s \in Crawlers :
           /\ sitemapReqs[s].code = 304
           /\ sitemapReqs[s].ifNoneMatch = sitemapCache.etag
    /\ \E s \in Crawlers : sitemapReqs[s].code = 500

\* the requests whose rebuild has sent requests to the API and is under way
Rebuilding ==
    {s \in Crawlers : sitemapReqs[s].pc = "building" /\ sitemapReqs[s].call.fetched}

\* C26: of the GET /sitemap.xml requests of a burst, overlapping ones
\* included, at most one has a rebuild from the API under way.
C26_OneRebuild == Cardinality(Rebuilding) <= 1

\* the towns of an index in their order, with their date ranges
TownsAndRanges(townIndex) ==
    [i \in 1 .. Len(townIndex) |->
        [town         |-> townIndex[i].town,
         startDateISO |-> townIndex[i].startDateISO,
         endDateISO   |-> townIndex[i].endDateISO]]

\* C27: for the same grouped events and day buildTownIndex gives the same
\* towns in the same order with the same date ranges whatever
\* comingSoonDays is, and the town page route, asked for a town path the
\* sitemap lists, finds the town and does not answer 404.
C27_SitemapTownsFound ==
    response # <<>> =>
        LET listed == response[1]
            full == buildTownIndex(listed.groupedEvents, SitemapSoonDays, listed.day)
        IN  /\ \A n \in 0 .. SitemapSoonDays :
                   TownsAndRanges(buildTownIndex(listed.groupedEvents, n, listed.day))
                       = TownsAndRanges(full)
            /\ \A k \in 1 .. Len(listed.asked) :
                   listed.asked[k].route = TownPageRoute => listed.asked[k].code = 200
C27_Witness ==
    /\ response # <<>>
    /\ response[1].asked # <<>>
    /\ response[1].asked[1].route = TownPageRoute
    /\ response[1].asked[1].code = 200
    /\ LET listed == response[1]
           full == buildTownIndex(listed.groupedEvents, SitemapSoonDays, listed.day)
           page == buildTownIndex(listed.groupedEvents,
                                  listed.asked[1].comingSoonDays, listed.day)
       IN  \E i \in 1 .. Len(full) :
               /\ full[i].status = "COMING_SOON"
               /\ page[i].status = "LATER"
               /\ <<"/circus-in/">> \o townSlugOf(full[i].town) = listed.asked[1].path

====
